---- MODULE Spec2Model ----
(***************************************************************************)
(* A model of the duke3d-group archive: the GroupFile entry                *)
(* (src/src/group-file.js) and the Group entry table and binary codec      *)
(* (src/unnamed/part_002).                                                 *)
(*                                                                         *)
(* Representation.  A JavaScript string is a sequence of character codes   *)
(* (ASCII); a Buffer is a sequence of bytes.  null and every value that is *)
(* not a string (resp. not a buffer) is the one-element sequence <<-1>>,   *)
(* which is neither a string nor a buffer since its element is negative.   *)
(***************************************************************************)
EXTENDS Integers, Sequences, FiniteSets, TLC

VARIABLES
    files,  \* the table of the Group under test (Group.files)
    file,   \* a GroupFile of its own, for the operations of GroupFile
    pre,    \* the table as it was before the last operation
    op,     \* the last operation
    arg,    \* its arguments
    ret,    \* its outcome: what it returned, or that it threw
    held    \* the data value the caller gave to the GroupFile and still holds

vars == <<files, file, pre, op, arg, ret, held>>

(***************************************************************************)
(* Strings                                                                 *)
(***************************************************************************)
Null == <<-1>>

IsString(x) == \A i \in DOMAIN x : x[i] >= 0

Upper == <<"A","B","C","D","E","F","G","H","I","J","K","L","M",
           "N","O","P","Q","R","S","T","U","V","W","X","Y","Z">>

Lower == <<"a","b","c","d","e","f","g","h","i","j","k","l","m",
           "n","o","p","q","r","s","t","u","v","w","x","y","z">>

Digit == <<"0","1","2","3","4","5","6","7","8","9">>

Other == [c \in {"NUL", "TAB", " ", "!", ".", "/", "?", "\\", "_"} |->
            CASE c = "NUL" -> 0
              [] c = "TAB" -> 9
              [] c = " "   -> 32
              [] c = "!"   -> 33
              [] c = "."   -> 46
              [] c = "/"   -> 47
              [] c = "?"   -> 63
              [] c = "\\"  -> 92
              [] c = "_"   -> 95]

\* The ASCII code of a character written as a one-character string.
CharCode(c) ==
    IF \E i \in DOMAIN Upper : Upper[i] = c
    THEN 64 + (CHOOSE i \in DOMAIN Upper : Upper[i] = c)
    ELSE IF \E i \in DOMAIN Lower : Lower[i] = c
    THEN 96 + (CHOOSE i \in DOMAIN Lower : Lower[i] = c)
    ELSE IF \E i \in DOMAIN Digit : Digit[i] = c
    THEN 47 + (CHOOSE i \in DOMAIN Digit : Digit[i] = c)
    ELSE Other[c]

\* A string literal: Str(<<"A", ".", "b">>) is the string "A.b".
Str(cs) == [i \in 1..Len(cs) |-> CharCode(cs[i])]

NUL == CharCode("NUL")
DOT == CharCode(".")

SEPARATORS == {CharCode("/"), CharCode("\\")}

Min(S) == CHOOSE i \in S : \A j \in S : i <= j
Max(S) == CHOOSE i \in S : \A j \in S : j <= i

\* The 1-based positions of s that hold a character of C, the first and the
\* last of them; 0 when there is none.
indexesOf(s, C) == {i \in DOMAIN s : s[i] \in C}
firstIndexOf(s, C) == IF indexesOf(s, C) = {} THEN 0 ELSE Min(indexesOf(s, C))
lastIndexOf(s, C) == IF indexesOf(s, C) = {} THEN 0 ELSE Max(indexesOf(s, C))

\* s.substring(from, to) with 0-based from (inclusive) and to (exclusive).
substring(s, from, to) ==
    IF from >= to \/ from >= Len(s) THEN <<>>
    ELSE SubSeq(s, from + 1, IF to > Len(s) THEN Len(s) ELSE to)

\* The characters String.prototype.trim removes (ASCII white space).
IsWhiteSpace(c) == c \in {9, 10, 11, 12, 13, 32}

\* s without what comes before its first and after its last position in keep.
between(s, keep) == IF keep = {} THEN <<>> ELSE SubSeq(s, Min(keep), Max(keep))

\* String.prototype.trim
trim(s) == between(s, {i \in DOMAIN s : ~IsWhiteSpace(s[i])})

\* String.prototype.toUpperCase on ASCII.
toUpperCase(s) == [i \in DOMAIN s |-> IF s[i] \in 97..122 THEN s[i] - 32 ELSE s[i]]

\* utilities.isEmptyString(value): not a string, or empty once trimmed.
isEmptyString(x) == ~IsString(x) \/ trim(x) = <<>>

isNonEmptyString(x) == IsString(x) /\ trim(x) # <<>>

\* s before its 1-based position i; s itself when i is 0.
before(s, i) == IF i = 0 THEN s ELSE SubSeq(s, 1, i - 1)

\* s after its 1-based position i.
after(s, i) == SubSeq(s, i + 1, Len(s))

\* utilities.trimNullTerminatedString(value): the part before the first NUL.
trimNullTerminatedString(s) == before(s, firstIndexOf(s, {NUL}))

\* The loop of getFileName on the trimmed path: the trimmed part after the
\* last separator, at the 1-based position last, or the path when last is 0.
afterSeparator(filePath, last) ==
    IF last = 0 THEN filePath ELSE trim(after(filePath, last))

fileNameOf(filePath) == afterSeparator(filePath, lastIndexOf(filePath, SEPARATORS))

\* utilities.getFileName(filePath): the trimmed part after the last / or \.
getFileName(s) == fileNameOf(trim(s))

\* A truncation that leaves the stem as long as it is.
cutNothing(originalFileName, extension, maxLength) ==
    originalFileName \o (IF Len(extension) > 0 THEN <<DOT>> \o extension ELSE <<>>)

\* A truncation to 8 characters of stem and 3 of extension.
cutStemTo8Dot3(originalFileName, extension, maxLength) ==
    substring(originalFileName, 0, 8)
        \o (IF Len(extension) > 0 THEN <<DOT>> \o substring(extension, 0, 3) ELSE <<>>)

\* The end of truncateFileName: the stem is cut so that it fits with the
\* extension, unless the extension leaves no room for a stem, and then the
\* result is the stem cut to maxLength.
cutStem(originalFileName, extension, maxLength) ==
    IF maxLength - (Len(extension) + (IF Len(extension) > 0 THEN 1 ELSE 0)) < 1
    THEN substring(originalFileName, 0, maxLength)
    ELSE substring(originalFileName, 0,
                   maxLength - Len(extension) - (IF Len(extension) > 0 THEN 1 ELSE 0))
            \o (IF Len(extension) > 0 THEN <<DOT>> \o extension ELSE <<>>)

\* The loop of truncateFileName: the file name is split at its last dot, at
\* the 1-based position last (0 when it has none).
splitAtDot(fileName, last, maxLength) ==
    cutStem(before(fileName, last),
            IF last = 0 THEN <<>> ELSE after(fileName, last),
            maxLength)

truncate(fileName, maxLength) ==
    IF Len(fileName) <= maxLength THEN fileName
    ELSE splitAtDot(fileName, lastIndexOf(fileName, {DOT}), maxLength)

\* utilities.truncateFileName(fileName, maxLength) for an integer maxLength > 0.
truncateFileName(s, maxLength) == truncate(getFileName(s), maxLength)

\* The characters of s in reverse order.
reverseString(s) == [i \in DOMAIN s |-> s[Len(s) + 1 - i]]

\* The loop of reverseFileExtension on the trimmed name, with the 1-based
\* position of its last dot (0 when it has none).
reverseAfter(fileName, last) ==
    IF last = 0 THEN fileName
    ELSE SubSeq(fileName, 1, last) \o reverseString(after(fileName, last))

\* utilities.reverseFileExtension(fileName): the trimmed name with the
\* characters after its last dot reversed; null for a value that is no string.
reverseFileExtension(s) ==
    IF ~IsString(s) THEN Null ELSE reverseAfter(trim(s), lastIndexOf(trim(s), {DOT}))

(***************************************************************************)
(* GroupFile (src/src/group-file.js)                                       *)
(*                                                                         *)
(* An element of the table is a record [isGroupFile, name, size, data]:    *)
(* a GroupFile, or any other value (isGroupFile = FALSE), such as the      *)
(* Error object the tests store in a table.                                *)
(***************************************************************************)
MAX_FILE_NAME_LENGTH == 12

\* The name setter.
NameSetter(x) ==
    IF IsString(x)
    THEN toUpperCase(truncateFileName(trimNullTerminatedString(x), MAX_FILE_NAME_LENGTH))
    ELSE Null

\* The size setter; n is an integer (every other value is stored as 0 too).
SizeSetter(n) == IF n >= 0 THEN n ELSE 0

\* Buffer.isBuffer / ByteBuffer.isByteBuffer / typeof "string" on a data value.
IsBuffer(d) == \A i \in DOMAIN d : d[i] >= 0

\* The data setter: a copy of the bytes, or null, and the size that follows.
DataSetter(f, d) ==
    IF IsBuffer(d) THEN [f EXCEPT !.data = d, !.size = SizeSetter(Len(d))]
    ELSE [f EXCEPT !.data = Null, !.size = SizeSetter(0)]

\* The two kinds of second constructor argument: an integer (a declared size)
\* or anything else (handed to the data setter).
IntArg(n) == [int |-> TRUE, n |-> n, b |-> Null]
BufArg(b) == [int |-> FALSE, n |-> 0, b |-> b]

\* new GroupFile(name, data)
GroupFile(name, data) ==
    IF data.int
    THEN [isGroupFile |-> TRUE, name |-> NameSetter(name), size |-> SizeSetter(data.n),
          data |-> Null]
    ELSE DataSetter([isGroupFile |-> TRUE, name |-> NameSetter(name), size |-> 0,
                     data |-> Null], data.b)

\* file.size = x for an integer (IntArg) or any other value.
AssignSize(f, x) == [f EXCEPT !.size = IF x.int THEN SizeSetter(x.n) ELSE 0]

\* GroupFile.setData(data)
setData(f, d) == DataSetter(f, d)

\* GroupFile.clearData()
clearData(f) == DataSetter(f, Null)

\* A value that is not a GroupFile (new Error("...")).
NotAGroupFile == [isGroupFile |-> FALSE, name |-> Null, size |-> 0, data |-> Null]

\* The JavaScript null where a GroupFile is expected.
NullFile == [isGroupFile |-> FALSE, name |-> Null, size |-> -1, data |-> Null]

isGroupFile(x) == x.isGroupFile

\* static GroupFile.isValid(groupFile)
GroupFileIsValid(x) == isGroupFile(x) /\ isNonEmptyString(x.name)

\* An equals for which null data is data of no bytes.
GroupFileEqualsByBytes(a, value) ==
    /\ isGroupFile(value)
    /\ a.name = value.name
    /\ (IF a.data = Null THEN <<>> ELSE a.data) = (IF value.data = Null THEN <<>> ELSE value.data)

\* GroupFile.equals(value); Buffer.equals compares the bytes.
GroupFileEquals(a, value) ==
    IF ~isGroupFile(value) THEN FALSE
    ELSE IF a.name # value.name THEN FALSE
    ELSE IF a.data = Null /\ value.data = Null THEN TRUE
    ELSE IF a.data = Null /\ value.data # Null THEN FALSE
    ELSE IF a.data # Null /\ value.data = Null THEN FALSE
    ELSE a.data = value.data

\* A data size that is the size the file declares.
getDeclaredSize(f) == f.size

\* GroupFile.getDataSize()
getDataSize(f) == IF f.data = Null THEN 0 ELSE Len(f.data)

getSerializedFileName(f) ==
    f.name \o [i \in 1..(MAX_FILE_NAME_LENGTH - Len(f.name)) |-> NUL]

(***************************************************************************)
(* Group: queries on the table (src/unnamed/part_002)                      *)
(*                                                                         *)
(* A table is a sequence of elements; positions are 0-based as in the      *)
(* code, so the element at index i is fs[i + 1].                           *)
(***************************************************************************)
HEADER_TEXT == Str(<<"K","e","n","S","i","l","v","e","r","m","a","n">>)

\* An isValid that looks at the kind of the elements and not at their names.
isValidByKind(fs) == \A i \in DOMAIN fs : isGroupFile(fs[i])

\* Group.isValid()
isValid(fs) == \A i \in DOMAIN fs : GroupFileIsValid(fs[i])

\* a.localeCompare(b, { }, { usage: "search", sensitivity: "accent" }) === 0
\* on ASCII strings: equal up to letter case.
localeCompareEqual(a, b) == toUpperCase(a) = toUpperCase(b)

\* The forms of the reference the table's operations accept.
IntRef(i)  == [t |-> "int",   i |-> i, s |-> Null, f |-> NullFile]
StrRef(s)  == [t |-> "str",   i |-> 0, s |-> s,    f |-> NullFile]
FileRef(f) == [t |-> "file",  i |-> 0, s |-> Null, f |-> f]
OtherRef   == [t |-> "other", i |-> 0, s |-> Null, f |-> NullFile]

\* The loop of indexOfFile: the first named GroupFile whose name equals
\* fileName up to case, as a 0-based index, or -1.
firstMatch(hits) == IF hits = {} THEN -1 ELSE Min(hits) - 1

searchName(fs, fileName) ==
    firstMatch({i \in DOMAIN fs :
                    /\ isGroupFile(fs[i])
                    /\ ~isEmptyString(fs[i].name)
                    /\ localeCompareEqual(fs[i].name, fileName)})

\* A string branch that looks for the name as the name setter would store it.
indexOfNormalizedName(fs, s) ==
    IF Len(fs) = 0 \/ isEmptyString(s) THEN -1 ELSE searchName(fs, NameSetter(s))


\* The string branch of indexOfFile.
indexOfName(fs, s) ==
    IF Len(fs) = 0 \/ isEmptyString(s) THEN -1 ELSE searchName(fs, trim(s))

\* Group.indexOfFile(file)
indexOfFile(fs, ref) ==
    IF Len(fs) = 0 THEN -1
    ELSE IF ref.t = "str" THEN indexOfName(fs, ref.s)
    ELSE IF ref.t = "file" /\ isGroupFile(ref.f) /\ IsString(ref.f.name)
    THEN indexOfName(fs, ref.f.name)
    ELSE -1

hasFile(fs, ref) == indexOfFile(fs, ref) # -1

\* The element at a 0-based index, null for -1.
elementAt(fs, fileIndex) == IF fileIndex = -1 THEN NullFile ELSE fs[fileIndex + 1]

\* The index of the element getFile(file) returns, or -1: an integer is an
\* index of its own, checked against the bounds; anything else is looked up.
indexOfGetFile(fs, ref) ==
    IF ref.t = "int"
    THEN (IF ref.i < 0 \/ ref.i >= Len(fs) THEN -1 ELSE ref.i)
    ELSE indexOfFile(fs, ref)

\* Group.getFile(file)
getFile(fs, ref) == elementAt(fs, indexOfGetFile(fs, ref))

\* A turn that passes over an element that is not a valid GroupFile.
addDataSizeOfValid(fileSize, x) ==
    IF ~GroupFileIsValid(x) THEN fileSize ELSE fileSize + getDataSize(x)

\* One turn of the loop of getGroupFileSize: -1 from the first element that
\* is not a valid GroupFile on.
addDataSize(fileSize, x) ==
    IF fileSize = -1 \/ ~GroupFileIsValid(x) THEN -1 ELSE fileSize + getDataSize(x)

RECURSIVE SumDataSize(_, _)
\* The loop of getGroupFileSize over the first n elements.
SumDataSize(fs, n) ==
    IF n = 0 THEN 0 ELSE addDataSize(SumDataSize(fs, n - 1), fs[n])

\* Group.getGroupFileSize()
getGroupFileSize(fs) == SumDataSize(fs, Len(fs))

\* A group size that leaves out the field of the number of files.
getGroupSizeWithoutCount(fs) ==
    IF ~isValid(fs) THEN 0
    ELSE Len(HEADER_TEXT) + (Len(fs) * (MAX_FILE_NAME_LENGTH + 4)) + getGroupFileSize(fs)

\* Group.getGroupSize()
getGroupSize(fs) ==
    IF ~isValid(fs) THEN 0
    ELSE Len(HEADER_TEXT) + 4 + (Len(fs) * (MAX_FILE_NAME_LENGTH + 4)) + getGroupFileSize(fs)

(***************************************************************************)
(* Group: operations on the table.  Each is an operator from the table and *)
(* the arguments to the outcome: the table afterwards, whether the call    *)
(* threw, and what it returned.  The GroupFiles handed to the operations   *)
(* are objects of their own, none of them an object the table holds.       *)
(***************************************************************************)
Outcome(fs, raised, value, count, list) ==
    [files |-> fs, raised |-> raised, value |-> value, count |-> count, list |-> list]

Throw(fs) == Outcome(fs, TRUE, NullFile, 0, <<>>)

\* The end of addFile, with the index of the file's name in the table.
storeFile(fs, x, replace, groupFileIndex) ==
    IF groupFileIndex # -1
    THEN (IF ~replace THEN Throw(fs)
          ELSE Outcome([fs EXCEPT ![groupFileIndex + 1] = x], FALSE, x, 0, <<>>))
    ELSE Outcome(Append(fs, x), FALSE, x, 0, <<>>)

\* Group.addFile(file, replace) for a file that is not a path.
addFile(fs, x, replace) ==
    IF ~GroupFileIsValid(x) THEN Throw(fs)
    ELSE storeFile(fs, x, replace, indexOfFile(fs, FileRef(x)))

RECURSIVE addFilesLoop(_, _, _, _, _)
\* One turn of the loop of addFiles, with the outcome o of addFile: an
\* exception leaves the loop with the table as the calls before it made it.
addFilesTurn(o, list, i, replace, filesAdded) ==
    IF o.raised THEN Throw(o.files)
    ELSE addFilesLoop(o.files, list, i + 1, replace, Append(filesAdded, o.value))

\* The loop of addFiles from element i (1-based) on.
addFilesLoop(fs, list, i, replace, filesAdded) ==
    IF i > Len(list) THEN Outcome(fs, FALSE, NullFile, 0, filesAdded)
    ELSE addFilesTurn(addFile(fs, list[i], replace), list, i, replace, filesAdded)

\* An addFiles that puts the table back as it was when an element fails.
addFilesOrNone(fs, list, replace) ==
    IF Len(list) = 0 THEN Outcome(fs, FALSE, NullFile, 0, <<>>)
    ELSE IF addFilesLoop(fs, list, 1, replace, <<>>).raised THEN Throw(fs)
    ELSE addFilesLoop(fs, list, 1, replace, <<>>)

\* Group.addFiles(files, replace) for an array of files.
addFiles(fs, list, replace) ==
    IF Len(list) = 0 THEN Outcome(fs, FALSE, NullFile, 0, <<>>)
    ELSE addFilesLoop(fs, list, 1, replace, <<>>)

\* A replaceFile that stores the new file before it validates it.
replaceAtThenValidate(fs, indexOfFileToReplace, x) ==
    IF indexOfFileToReplace = -1 THEN Outcome(fs, FALSE, NullFile, 0, <<>>)
    ELSE IF ~GroupFileIsValid(x) THEN Throw([fs EXCEPT ![indexOfFileToReplace + 1] = x])
    ELSE Outcome([fs EXCEPT ![indexOfFileToReplace + 1] = x], FALSE, x, 0, <<>>)

\* The end of replaceFile, with the index of the file to replace.
replaceAt(fs, indexOfFileToReplace, x) ==
    IF indexOfFileToReplace = -1 THEN Outcome(fs, FALSE, NullFile, 0, <<>>)
    ELSE IF ~GroupFileIsValid(x) THEN Throw(fs)
    ELSE Outcome([fs EXCEPT ![indexOfFileToReplace + 1] = x], FALSE, x, 0, <<>>)

\* Group.replaceFile(file, newFile) for a newFile that is not a path.
replaceFile(fs, ref, x) == replaceAt(fs, indexOfFile(fs, ref), x)

\* fs.splice(i, 1) for a 0-based i
splice(fs, i) == SubSeq(fs, 1, i) \o SubSeq(fs, i + 2, Len(fs))

\* The end of removeFile; count is 1 for true and 0 for false.
removeAt(fs, fileIndex) ==
    IF fileIndex = -1 THEN Outcome(fs, FALSE, NullFile, 0, <<>>)
    ELSE Outcome(splice(fs, fileIndex), FALSE, NullFile, 1, <<>>)

\* Group.removeFile(file)
removeFile(fs, ref) == removeAt(fs, indexOfGetFile(fs, ref))

\* fileIndexes.splice(insertAtIndex, 0, fileIndex) for a 0-based insertAtIndex
insertAt(fileIndexes, insertAtIndex, fileIndex) ==
    SubSeq(fileIndexes, 1, insertAtIndex) \o <<fileIndex>>
        \o SubSeq(fileIndexes, insertAtIndex + 1, Len(fileIndexes))

\* Where the loop over insertAtIndex stops: at the first of the 1-based
\* positions that hold an index not smaller, or at the end of the list.
stopAt(fileIndexes, notSmaller) ==
    IF notSmaller = {} THEN Len(fileIndexes) ELSE Min(notSmaller) - 1

\* An insertion at the end of the list, whatever the list holds.
insertLast(fileIndexes, fileIndex) == Append(fileIndexes, fileIndex)

\* The insertion of removeFiles: fileIndex goes before the first element of
\* the list that is not smaller.
insertSorted(fileIndexes, fileIndex) ==
    insertAt(fileIndexes,
             stopAt(fileIndexes, {j \in DOMAIN fileIndexes : fileIndexes[j] >= fileIndex}),
             fileIndex)

\* The index a reference of removeFiles stands for: an integer is an index
\* as it is, anything else is looked up.
indexOfRef(fs, ref) == IF ref.t = "int" THEN ref.i ELSE indexOfFile(fs, ref)

RECURSIVE collectIndexes(_, _, _, _)
\* One turn of the first loop of removeFiles.
collectTurn(fs, refs, i, fileIndexes, fileIndex) ==
    IF /\ fileIndex >= 0
       /\ fileIndex < Len(fs)
       /\ \A j \in DOMAIN fileIndexes : fileIndexes[j] # fileIndex
    THEN collectIndexes(fs, refs, i + 1, insertSorted(fileIndexes, fileIndex))
    ELSE collectIndexes(fs, refs, i + 1, fileIndexes)

\* The first loop of removeFiles from reference i (1-based) on.
collectIndexes(fs, refs, i, fileIndexes) ==
    IF i > Len(refs) THEN fileIndexes
    ELSE collectTurn(fs, refs, i, fileIndexes, indexOfRef(fs, refs[i]))

\* The inner loop of removeFiles: the file at index i stays unless the sorted
\* list holds i before it holds anything greater.
keepFile(fileIndexes, i) ==
    ~ \E j \in DOMAIN fileIndexes :
          /\ fileIndexes[j] = i
          /\ \A k \in 1..(j - 1) : fileIndexes[k] <= i

RECURSIVE keptFiles(_, _, _)
\* The second loop of removeFiles over the first n elements.
keptFiles(fs, fileIndexes, n) ==
    IF n = 0 THEN <<>>
    ELSE keptFiles(fs, fileIndexes, n - 1)
            \o (IF keepFile(fileIndexes, n - 1) THEN <<fs[n]>> ELSE <<>>)

\* The end of removeFiles, with the sorted list of the indexes to remove.
removeIndexes(fs, fileIndexes) ==
    Outcome(keptFiles(fs, fileIndexes, Len(fs)), FALSE, NullFile, Len(fileIndexes), <<>>)

\* Group.removeFiles(files) for an array of references.
removeFiles(fs, refs) ==
    IF Len(refs) = 0 THEN Outcome(fs, FALSE, NullFile, 0, <<>>)
    ELSE removeIndexes(fs, collectIndexes(fs, refs, 1, <<>>))

\* A renameFile that stores the new name as it is given.
renameAtAsGiven(fs, fileIndex, newFileName) ==
    IF ~GroupFileIsValid(elementAt(fs, fileIndex)) THEN Outcome(fs, FALSE, NullFile, 0, <<>>)
    ELSE Outcome([fs EXCEPT ![fileIndex + 1].name = newFileName], FALSE, NullFile, 1, <<>>)

\* The end of renameFile, with the index of the file getFile returned;
\* count is 1 for true and 0 for false.
renameAt(fs, fileIndex, newFileName) ==
    IF ~GroupFileIsValid(elementAt(fs, fileIndex)) THEN Outcome(fs, FALSE, NullFile, 0, <<>>)
    ELSE Outcome([fs EXCEPT ![fileIndex + 1].name = NameSetter(newFileName)],
                 FALSE, NullFile, 1, <<>>)

\* Group.renameFile(file, newFileName)
renameFile(fs, ref, newFileName) == renameAt(fs, indexOfGetFile(fs, ref), newFileName)

\* Group.clearFiles()
clearFiles(fs) == Outcome(<<>>, FALSE, NullFile, 0, <<>>)

\* The loop of Group.equals over the first n files: value has each of them.
hasFiles(fs, value, n) == \A i \in 1..n : hasFile(value, FileRef(fs[i]))

\* Group.equals(value) for a value that is a Group with the table value.
groupEquals(fs, value) ==
    IF ~isValid(fs) \/ ~isValid(value) THEN FALSE
    ELSE IF Len(fs) # Len(value) THEN FALSE
    ELSE hasFiles(fs, value, Len(fs))

\* static Group.checkSameFileOrder(groupA, groupB) for two Groups.
checkSameFileOrder(groupA, groupB) ==
    IF ~isValid(groupA) \/ ~isValid(groupB) THEN FALSE
    ELSE IF Len(groupA) # Len(groupB) THEN FALSE
    ELSE \A i \in DOMAIN groupA : GroupFileEquals(groupA[i], groupB[i])


\* utilities.getFileExtension(fileName): what follows the last dot of the
\* trimmed name, or "" when it has no dot.
extensionAfter(fileName, last) == IF last = 0 THEN <<>> ELSE after(fileName, last)

getFileExtension(s) ==
    IF ~IsString(s) THEN <<>> ELSE extensionAfter(trim(s), lastIndexOf(trim(s), {DOT}))

\* GroupFile.getExtension()
getExtension(f) == IF isEmptyString(f.name) THEN <<>> ELSE getFileExtension(f.name)

\* Of two strings of digits of one length, a writes no greater number than b.
NotAbove(a, b) ==
    \A i \in DOMAIN a : a[i] > b[i] => \E j \in 1..(i - 1) : a[j] < b[j]

\* The greatest array index, 2^32 - 2, in decimal.
MaxArrayIndex == Str(<<"4","2","9","4","9","6","7","2","9","4">>)

\* A property key that is an array index: the canonical decimal writing of
\* an integer from 0 to 2^32 - 2.
IsArrayIndex(key) ==
    /\ key # <<>>
    /\ \A i \in DOMAIN key : key[i] \in 48..57
    /\ Len(key) > 1 => key[1] # 48
    /\ Len(key) <= Len(MaxArrayIndex)
    /\ Len(key) = Len(MaxArrayIndex) => NotAbove(key, MaxArrayIndex)

\* Of two array indexes, a is no greater than b.
indexNotAbove(a, b) ==
    Len(a) < Len(b) \/ (Len(a) = Len(b) /\ NotAbove(a, b))

\* fileExtensions[key] = true: a new key is created after the keys there are.
setKey(keys, key) ==
    IF \E i \in DOMAIN keys : keys[i] = key THEN keys ELSE Append(keys, key)

\* The position, among those in left, of the key that writes the smallest number.
smallestIndexKey(keys, left) ==
    CHOOSE i \in left : \A j \in left : indexNotAbove(keys[i], keys[j])

RECURSIVE indexKeysAscending(_, _)
indexKeysAscending(keys, left) ==
    IF left = {} THEN <<>>
    ELSE <<keys[smallestIndexKey(keys, left)]>>
            \o indexKeysAscending(keys, left \ {smallestIndexKey(keys, left)})

IsNamedKey(key) == ~IsArrayIndex(key)

\* Object.keys(object) for an object whose keys were created in the order of
\* keys: the array indexes in ascending numeric order, then the other keys
\* in the order of their creation.
ObjectKeys(keys) ==
    indexKeysAscending(keys, {i \in DOMAIN keys : IsArrayIndex(keys[i])})
        \o SelectSeq(keys, IsNamedKey)

\* One turn of the loop of getFileExtensions.
extensionKeysTurn(keys, currentFile) ==
    IF ~isGroupFile(currentFile) \/ isEmptyString(currentFile.name) THEN keys
    ELSE IF isEmptyString(getExtension(currentFile)) THEN keys
    ELSE setKey(keys, toUpperCase(getExtension(currentFile)))

RECURSIVE extensionKeys(_, _)
extensionKeys(fs, n) ==
    IF n = 0 THEN <<>> ELSE extensionKeysTurn(extensionKeys(fs, n - 1), fs[n])

\* Group.getFileExtensions()
getFileExtensions(fs) ==
    Outcome(fs, FALSE, NullFile, 0, ObjectKeys(extensionKeys(fs, Len(fs))))


(***************************************************************************)
(* The binary codec.  The bytes of a name are its character codes: the     *)
(* model holds ASCII names only, for which ByteBuffer's writeString writes *)
(* and its readString reads one byte per character.                        *)
(***************************************************************************)
\* A writeUint32 in big-endian order.
writeUint32BigEndian(n) ==
    <<(n \div 16777216) % 256, (n \div 65536) % 256, (n \div 256) % 256, n % 256>>

\* ByteBuffer.writeUint32(value) in little-endian order.
writeUint32(n) ==
    <<n % 256, (n \div 256) % 256, (n \div 65536) % 256, (n \div 16777216) % 256>>

\* ByteBuffer.readUint32() at the 0-based offset, in little-endian order.
readUint32(bytes, offset) ==
    bytes[offset + 1] + 256 * bytes[offset + 2] + 65536 * bytes[offset + 3]
        + 16777216 * bytes[offset + 4]

\* The bytes of a character in UTF-8, for the characters up to U+07FF: one
\* byte for an ASCII character and two for the others.
encodeUTF8(c) ==
    IF c < 128 THEN <<c>> ELSE <<192 + (c \div 64), 128 + (c % 64)>>

RECURSIVE writeStringUpTo(_, _)
writeStringUpTo(s, n) ==
    IF n = 0 THEN <<>> ELSE writeStringUpTo(s, n - 1) \o encodeUTF8(s[n])

\* ByteBuffer.writeString(str): the characters of str in UTF-8.
writeString(s) == writeStringUpTo(s, Len(s))

RECURSIVE writeTable(_, _)
\* The first loop of serialize over the first n files: name and data size.
writeTable(fs, n) ==
    IF n = 0 THEN <<>>
    ELSE writeTable(fs, n - 1) \o writeString(getSerializedFileName(fs[n]))
            \o writeUint32(getDataSize(fs[n]))

RECURSIVE writeData(_, _)
\* The second loop of serialize over the first n files: the data, if any.
writeData(fs, n) ==
    IF n = 0 THEN <<>>
    ELSE writeData(fs, n - 1) \o (IF IsBuffer(fs[n].data) THEN fs[n].data ELSE <<>>)

\* Group.serialize(): the bytes written, or an exception.
serialize(fs) ==
    IF ~isValid(fs) THEN [raised |-> TRUE, bytes |-> <<>>]
    ELSE [raised |-> FALSE,
          bytes |-> writeString(HEADER_TEXT) \o writeUint32(Len(fs))
                        \o writeTable(fs, Len(fs)) \o writeData(fs, Len(fs))]

\* The capacity of the ByteBuffer readFrom appends the file to: 16 bytes to
\* start with, doubled or made to fit when the file is longer.
DEFAULT_CAPACITY == 16

capacityAfterAppend(groupSize) ==
    IF groupSize <= DEFAULT_CAPACITY THEN DEFAULT_CAPACITY
    ELSE IF 2 * DEFAULT_CAPACITY > groupSize THEN 2 * DEFAULT_CAPACITY
    ELSE groupSize

\* A copy that starts at the next offset that is a multiple of 4.
copyAligned(bytes, begin, end) ==
    [k \in 1..(end - begin) |->
        IF 4 * ((begin + 3) \div 4) + k <= Len(bytes)
        THEN bytes[4 * ((begin + 3) \div 4) + k] ELSE 0]

\* ByteBuffer.copy(begin, end).toBuffer() for a range inside the capacity;
\* the bytes past the end of the file are the zeroes the buffer was made of.
copy(bytes, begin, end) ==
    [k \in 1..(end - begin) |-> IF begin + k <= Len(bytes) THEN bytes[begin + k] ELSE 0]

\* The outcome of readFrom: the files of the group, or the check that failed
\* and the 1-based number of the file it failed on.
ReadError(error, number) == [raised |-> TRUE, error |-> error, number |-> number, files |-> <<>>]
ReadOk(fs) == [raised |-> FALSE, error |-> "", number |-> 0, files |-> fs]

RECURSIVE readTable(_, _, _, _, _)
\* A turn of the first loop that looks for the size before it looks at the
\* name.
readEntrySizeFirst(bytes, numberOfFiles, i, offset, fs, fileName) ==
    IF Len(bytes) < offset + 4 THEN ReadError("missing size", i + 1)
    ELSE IF isEmptyString(fileName) THEN ReadError("invalid name", i + 1)
    ELSE readTable(bytes, numberOfFiles, i + 1, offset + 4,
                   Append(fs, GroupFile(fileName, IntArg(readUint32(bytes, offset)))))

\* One turn of the first loop of readFrom, from the name read on.
readEntry(bytes, numberOfFiles, i, offset, fs, fileName) ==
    IF isEmptyString(fileName) THEN ReadError("invalid name", i + 1)
    ELSE IF Len(bytes) < offset + 4 THEN ReadError("missing size", i + 1)
    ELSE readTable(bytes, numberOfFiles, i + 1, offset + 4,
                   Append(fs, GroupFile(fileName, IntArg(readUint32(bytes, offset)))))

\* The first loop of readFrom from file i (0-based) on, at the 0-based offset.
readTable(bytes, numberOfFiles, i, offset, fs) ==
    IF i >= numberOfFiles THEN ReadOk(fs)
    ELSE IF Len(bytes) < offset + MAX_FILE_NAME_LENGTH THEN ReadError("missing name", i + 1)
    ELSE readEntry(bytes, numberOfFiles, i, offset + MAX_FILE_NAME_LENGTH, fs,
                   trimNullTerminatedString(
                       SubSeq(bytes, offset + 1, offset + MAX_FILE_NAME_LENGTH)))

RECURSIVE readData(_, _, _, _)
\* The second loop of readFrom from file i (1-based) on: each file is given
\* the next file.size bytes from fileOffset on.
readData(bytes, fs, i, fileOffset) ==
    IF i > Len(fs) THEN ReadOk(fs)
    ELSE IF fileOffset + fs[i].size > capacityAfterAppend(Len(bytes))
    THEN ReadError("illegal range", i)
    ELSE readData(bytes,
                  [fs EXCEPT ![i] = DataSetter(fs[i], copy(bytes, fileOffset, fileOffset + fs[i].size))],
                  i + 1, fileOffset + fs[i].size)

\* The end of readFrom, with the outcome of the first loop.
readPayload(bytes, table, fileDataOffset) ==
    IF table.raised THEN table ELSE readData(bytes, table.files, 1, fileDataOffset)

\* readFrom from the number of files on.
readFiles(bytes, numberOfFiles, offset) ==
    readPayload(bytes, readTable(bytes, numberOfFiles, 0, offset, <<>>),
                offset + numberOfFiles * (MAX_FILE_NAME_LENGTH + 4))

\* Group.readFrom(filePath) from the bytes of the file on.
readFrom(bytes) ==
    IF Len(bytes) < Len(HEADER_TEXT) THEN ReadError("missing header", 0)
    ELSE IF SubSeq(bytes, 1, Len(HEADER_TEXT)) # HEADER_TEXT THEN ReadError("invalid header", 0)
    ELSE IF Len(bytes) < Len(HEADER_TEXT) + 4 THEN ReadError("missing number of files", 0)
    ELSE readFiles(bytes, readUint32(bytes, Len(HEADER_TEXT)), Len(HEADER_TEXT) + 4)

(***************************************************************************)
(* The inputs of the name setter                                           *)
(***************************************************************************)
MaxStem == 13
MaxExt == 11

Letters == Str(<<"a","b","c","d","e","f","g","h","i","j","k","l","m","n","o","p","q">>)
ExtLetters == Str(<<"k","e","t","c","h","u","p","x","y","z","w","v","u","t">>)

\* The stems: k letters, one of them possibly a space, a dot or a separator.
Stems ==
    UNION {{substring(Letters, 0, k)} \cup
           {[substring(Letters, 0, k) EXCEPT ![p] = c] :
                p \in 1..k, c \in {CharCode(" "), DOT, CharCode("/")}} :
           k \in 0..MaxStem}

\* The extensions: none, or a dot and m letters.
Exts == {<<>>} \cup {<<DOT>> \o substring(ExtLetters, 0, m) : m \in 0..MaxExt}

Surprise == Str(<<" ","S","U","R","P","R","I","S","E",".","k","e","t","c","h","u","p","NUL","NUL","NUL">>)
SlipSlap == Str(<<"TAB","S","L","I","P","_","S","L","A","P",".","S","L","O","P","NUL">>)

\* What is assigned to a name: strings with and without white space around
\* them and a NUL-terminated tail, the two names of the tests, and a value
\* that is not a string.
NameInputs ==
    {p \o s \o e \o t : p \in {<<>>, Str(<<" ">>)}, s \in Stems, e \in Exts,
                        t \in {<<>>, Str(<<"NUL", "x">>)}}
        \cup {Surprise, SlipSlap, Null}

(***************************************************************************)
(* The specification of a GroupFile's name: a GroupFile is constructed     *)
(* with a name, then names are assigned to it, among them the name it has. *)
(***************************************************************************)
\* The arguments and the outcome of an operation, as the state records them.
NoArg == [name |-> Null, file |-> NullFile, ref |-> OtherRef, list |-> <<>>,
          replace |-> FALSE, bytes |-> <<>>]
NoRet == [raised |-> FALSE, value |-> NullFile, count |-> 0, list |-> <<>>,
          bytes |-> <<>>, error |-> ""]

\* The caller holds no data value.
NoHeld == [kind |-> "none", bytes |-> Null, shared |-> FALSE]

\* new GroupFile(name)
NameInit ==
    /\ files = <<>>
    /\ pre = <<>>
    /\ op = "new"
    /\ arg \in {[NoArg EXCEPT !.name = x] : x \in NameInputs}
    /\ file = GroupFile(arg.name, BufArg(Null))
    /\ ret = NoRet
    /\ held = NoHeld

\* GroupFile.setFileName(fileName)
setFileName(fileName) ==
    /\ file' = [file EXCEPT !.name = NameSetter(fileName)]
    /\ op' = "setFileName"
    /\ arg' = [NoArg EXCEPT !.name = fileName]
    /\ UNCHANGED <<files, pre, ret, held>>

\* file.setFileName(file.getFileName()): the name the GroupFile has is
\* assigned to it again.
setOwnFileName ==
    /\ file' = [file EXCEPT !.name = NameSetter(file.name)]
    /\ op' = "setOwnFileName"
    /\ arg' = [NoArg EXCEPT !.name = file.name]
    /\ UNCHANGED <<files, pre, ret, held>>

\* GroupFile.reverseFileExtension()
reverseOwnFileExtension ==
    /\ file' = [file EXCEPT !.name = NameSetter(reverseFileExtension(file.name))]
    /\ op' = "reverseFileExtension"
    /\ arg' = [NoArg EXCEPT !.name = file.name]
    /\ UNCHANGED <<files, pre, ret, held>>

\* group.renameFile(0, newFileName) on a group whose table holds the
\* GroupFile alone.
renameOwnFile(newFileName) ==
    /\ file' = elementAt(renameFile(<<file>>, IntRef(0), newFileName).files, 0)
    /\ op' = "renameFile"
    /\ arg' = [NoArg EXCEPT !.name = newFileName]
    /\ UNCHANGED <<files, pre, ret, held>>

NameNext ==
    \/ \E x \in {Surprise, SlipSlap} : setFileName(x)
    \/ setOwnFileName
    \/ reverseOwnFileExtension
    \/ \E x \in {Surprise, SlipSlap} : renameOwnFile(x)

SpecName == NameInit /\ [][NameNext]_vars

(***************************************************************************)
(* The tables and the arguments of the table's operations                  *)
(***************************************************************************)
MaxFiles == 3
MaxList == 2
MaxRefs == 3
MaxData == 2
MaxSize == 1

NameA == Str(<<"a">>)
NameBC == Str(<<"b", ".", "c">>)
\* A name of more than 12 characters whose twelfth is a space.
NameLong == Str(<<"h","e","l","l","o"," ","w","o","r","l","d"," ","f","o","o">>)
\* A name of exactly 12 characters.
NameTile == Str(<<"T","I","L","E","1","3","3","7",".","A","R","T">>)
NameStairs == Str(<<"s","t","a","i","r","s">>)

Payload == Str(<<"W","h","e","r","e">>)

\* What the tables hold and what is handed to add and replace: GroupFiles
\* with and without data, one with an empty name, and a value that is no
\* GroupFile.
TableFiles ==
    {GroupFile(NameA, BufArg(Null)), GroupFile(NameA, BufArg(substring(Payload, 0, 1))),
     GroupFile(NameBC, BufArg(Null)), GroupFile(NameLong, BufArg(Null)),
     GroupFile(<<>>, BufArg(Null)), NotAGroupFile}

\* The references: indexes in and out of range, names as a caller writes
\* them, GroupFiles, and a value that is none of these.
TableRefs ==
    {IntRef(-1), IntRef(0), IntRef(1), IntRef(MaxFiles),
     StrRef(Str(<<" ", "A", " ">>)), StrRef(NameBC), StrRef(NameStairs), StrRef(<<>>),
     FileRef(GroupFile(NameLong, BufArg(Null))), FileRef(GroupFile(NameBC, BufArg(Payload))),
     OtherRef}

\* The sequences over S of length at most n.
SeqUpTo(S, n) == UNION {[1..k -> S] : k \in 0..n}

\* new Group()
TableInit ==
    /\ files = <<>>
    /\ pre = <<>>
    /\ file = NullFile
    /\ op = "idle"
    /\ arg = NoArg
    /\ ret = NoRet
    /\ held = NoHeld

\* The state after an operation with outcome o: the operations are called
\* one at a time, each when the one before it has returned.
Done(name, a, o) ==
    /\ files' = o.files
    /\ pre' = files
    /\ op' = name
    /\ arg' = a
    /\ ret' = [NoRet EXCEPT !.raised = o.raised, !.value = o.value,
                            !.count = o.count, !.list = o.list]
    /\ UNCHANGED <<file, held>>

\* group.files.push(x): the caller puts a value into the table directly.
Push(x) ==
    /\ op = "idle"
    /\ Len(files) < MaxFiles
    /\ Done("push", [NoArg EXCEPT !.file = x], Outcome(Append(files, x), FALSE, NullFile, 0, <<>>))

AddFile(x, replace) ==
    /\ op = "idle"
    /\ Len(files) < MaxFiles
    /\ Done("addFile", [NoArg EXCEPT !.file = x, !.replace = replace], addFile(files, x, replace))

AddFiles(list, replace) ==
    /\ op = "idle"
    /\ Len(files) + Len(list) <= MaxFiles
    /\ Done("addFiles", [NoArg EXCEPT !.list = list, !.replace = replace],
            addFiles(files, list, replace))

ReplaceFile(ref, x) ==
    /\ op = "idle"
    /\ Done("replaceFile", [NoArg EXCEPT !.ref = ref, !.file = x], replaceFile(files, ref, x))

RemoveFile(ref) ==
    /\ op = "idle"
    /\ Done("removeFile", [NoArg EXCEPT !.ref = ref], removeFile(files, ref))

RemoveFiles(refs) ==
    /\ op = "idle"
    /\ Done("removeFiles", [NoArg EXCEPT !.list = refs], removeFiles(files, refs))

\* group.indexOfFile(ref); count is the index returned.
IndexOfFile(ref) ==
    /\ op = "idle"
    /\ Done("indexOfFile", [NoArg EXCEPT !.ref = ref],
            Outcome(files, FALSE, NullFile, indexOfFile(files, ref), <<>>))

\* group.hasFile(ref); count is 1 for true and 0 for false.
HasFile(ref) ==
    /\ op = "idle"
    /\ Done("hasFile", [NoArg EXCEPT !.ref = ref],
            Outcome(files, FALSE, NullFile, IF hasFile(files, ref) THEN 1 ELSE 0, <<>>))

\* group.renameFile(ref, newFileName); count is 1 for true and 0 for false.
RenameFile(ref, newFileName) ==
    /\ op = "idle"
    /\ Done("renameFile", [NoArg EXCEPT !.ref = ref, !.name = newFileName],
            renameFile(files, ref, newFileName))

\* The caller has the outcome of the call and goes on.
Return ==
    /\ op # "idle"
    /\ op' = "idle"
    /\ pre' = files
    /\ arg' = NoArg
    /\ ret' = NoRet
    /\ UNCHANGED <<files, file, held>>

\* A group that is made with new Group() and filled with addFile alone.
AddNext ==
    \/ \E x \in TableFiles : AddFile(x, FALSE)
    \/ Return

SpecAdd == TableInit /\ [][AddNext]_vars

\* A group whose table the caller fills, adds to and replaces in.
Next ==
    \/ \E x \in TableFiles : Push(x)
    \/ \E x \in TableFiles, replace \in BOOLEAN : AddFile(x, replace)
    \/ \E list \in SeqUpTo(TableFiles, MaxList), replace \in BOOLEAN : AddFiles(list, replace)
    \/ \E ref \in TableRefs, x \in TableFiles : ReplaceFile(ref, x)
    \/ \E ref \in TableRefs : IndexOfFile(ref)
    \/ \E ref \in TableRefs : HasFile(ref)
    \/ \E ref \in TableRefs : RemoveFile(ref)
    \/ Return

Spec == TableInit /\ [][Next]_vars

\* A group whose table the caller fills and renames in.
RenameTableFiles ==
    {GroupFile(NameA, BufArg(Null)), GroupFile(NameBC, BufArg(Payload)),
     GroupFile(<<>>, BufArg(Null)), NotAGroupFile}

\* The new names: one in lower case, one that the table may hold, and null.
RenameNames == {NameStairs, NameA, Null}

RenameNext ==
    \/ \E x \in RenameTableFiles : Push(x)
    \/ \E ref \in TableRefs, newFileName \in RenameNames : RenameFile(ref, newFileName)
    \/ Return

SpecRename == TableInit /\ [][RenameNext]_vars

\* A group that is made with new Group() and changed with addFile,
\* renameFile, replaceFile and removeFile alone; none of the names is cut.
UniqueFiles ==
    {GroupFile(NameA, BufArg(Null)), GroupFile(NameBC, BufArg(Payload)),
     GroupFile(NameStairs, BufArg(Null)), GroupFile(<<>>, BufArg(Null)), NotAGroupFile}

UniqueNames == {NameStairs, NameA, <<>>, Null}

UniqueNext ==
    \/ \E x \in UniqueFiles, replace \in BOOLEAN : AddFile(x, replace)
    \/ \E ref \in TableRefs, newFileName \in UniqueNames : RenameFile(ref, newFileName)
    \/ \E ref \in TableRefs, x \in UniqueFiles : ReplaceFile(ref, x)
    \/ \E ref \in TableRefs : RemoveFile(ref)
    \/ Return

SpecUnique == TableInit /\ [][UniqueNext]_vars


\* group.clearFiles()
ClearFiles ==
    /\ op = "idle"
    /\ Done("clearFiles", NoArg, clearFiles(files))

\* A group that is made with new Group() and changed with the operations of
\* the table alone, with valid and invalid arguments.
ValidFiles == {GroupFile(NameA, BufArg(Null)), GroupFile(NameBC, BufArg(Payload)), NotAGroupFile}

ValidRefs == {IntRef(0), IntRef(1), StrRef(NameBC), OtherRef}

\* The new names: a name, the empty string and null.
ValidNames == {NameStairs, <<>>, Null}

ValidNext ==
    \/ \E x \in ValidFiles, replace \in BOOLEAN : AddFile(x, replace)
    \/ \E list \in SeqUpTo(ValidFiles, MaxList), replace \in BOOLEAN : AddFiles(list, replace)
    \/ \E ref \in ValidRefs, newFileName \in ValidNames : RenameFile(ref, newFileName)
    \/ \E ref \in ValidRefs, x \in ValidFiles : ReplaceFile(ref, x)
    \/ \E ref \in ValidRefs : RemoveFile(ref)
    \/ \E refs \in SeqUpTo(ValidRefs, MaxRefs) : RemoveFiles(refs)
    \/ ClearFiles
    \/ Return

SpecValid == TableInit /\ [][ValidNext]_vars


\* group.getFile(ref); value is the element returned, count its index.
GetFile(ref) ==
    /\ op = "idle"
    /\ Done("getFile", [NoArg EXCEPT !.ref = ref],
            Outcome(files, FALSE, getFile(files, ref), indexOfGetFile(files, ref), <<>>))

\* A group that is filled with addFile and looked up by the names as the
\* caller wrote them: names the name setter changes in case only, by
\* trimming, by stripping a path, by truncation, and a name that truncation
\* leaves with a space at its end.
LookupNames ==
    {NameA, Str(<<" ", "b", ".", "c", " ">>), Str(<<"d", "/", "e">>), Surprise, NameTile, NameLong}

LookupNext ==
    \/ \E s \in LookupNames : AddFile(GroupFile(s, BufArg(Null)), FALSE)
    \/ \E s \in LookupNames : IndexOfFile(StrRef(s))
    \/ \E s \in LookupNames : HasFile(StrRef(s))
    \/ \E s \in LookupNames : GetFile(StrRef(s))
    \/ Return

SpecLookup == TableInit /\ [][LookupNext]_vars


\* A group whose table the caller fills and whose extensions are listed:
\* names with an extension of letters (twice), of digits that write an array
\* index, of digits that do not, and names without extension.
ExtensionTableFiles ==
    {GroupFile(Str(<<"a", ".", "t">>), BufArg(Null)),
     GroupFile(Str(<<"f", ".", "T">>), BufArg(Null)),
     GroupFile(Str(<<"b", ".", "2">>), BufArg(Null)),
     GroupFile(Str(<<"c", ".", "1">>), BufArg(Null)),
     GroupFile(Str(<<"d", ".", "0", "7">>), BufArg(Null)),
     GroupFile(Str(<<"e">>), BufArg(Null)),
     GroupFile(<<>>, BufArg(Null)), NotAGroupFile}

\* group.getFileExtensions(); list is the array returned.
GetFileExtensions ==
    /\ op = "idle"
    /\ Done("getFileExtensions", NoArg, getFileExtensions(files))

ExtensionNext ==
    \/ \E x \in ExtensionTableFiles : Push(x)
    \/ GetFileExtensions
    \/ Return

SpecExtension == TableInit /\ [][ExtensionNext]_vars

\* A group whose table the caller fills and removes from.
RemoveRefs ==
    {IntRef(-1), IntRef(0), IntRef(2), IntRef(MaxFiles), StrRef(NameBC),
     FileRef(GroupFile(NameA, BufArg(Payload))), OtherRef}

\* What the tables of the removals hold: two GroupFiles and a value that is
\* no GroupFile.
RemoveTableFiles ==
    {GroupFile(NameA, BufArg(Null)), GroupFile(NameBC, BufArg(Null)), NotAGroupFile}

RemoveNext ==
    \/ \E x \in RemoveTableFiles : Push(x)
    \/ \E refs \in SeqUpTo(RemoveRefs, MaxRefs) : RemoveFiles(refs)
    \/ Return

SpecRemove == TableInit /\ [][RemoveNext]_vars

(***************************************************************************)
(* The specification of the codec: a group is given a table, its size is   *)
(* asked for, it is serialized, and the bytes are read back.               *)
(***************************************************************************)
CodecData ==
    {BufArg(Null)} \cup {BufArg(substring(Payload, 0, k)) : k \in 0..MaxData}
        \cup {IntArg(n) : n \in 1..MaxSize}

CodecFiles ==
    {GroupFile(n, d) : n \in {NameA, NameLong}, d \in CodecData}
        \cup {GroupFile(NameTile, BufArg(substring(Payload, 0, MaxData))),
              GroupFile(<<>>, BufArg(Null)), GroupFile(Null, BufArg(Payload)),
              NotAGroupFile}

\* group.files = [...]
CodecInit ==
    /\ files \in SeqUpTo(CodecFiles, MaxFiles)
    /\ pre = <<>>
    /\ file = NullFile
    /\ op = "idle"
    /\ arg = NoArg
    /\ ret = NoRet
    /\ held = NoHeld

GetGroupSize ==
    /\ op = "idle"
    /\ op' = "getGroupSize"
    /\ ret' = [NoRet EXCEPT !.count = getGroupSize(files)]
    /\ pre' = files
    /\ UNCHANGED <<files, file, arg, held>>

GetGroupFileSize ==
    /\ op = "idle"
    /\ op' = "getGroupFileSize"
    /\ ret' = [NoRet EXCEPT !.count = getGroupFileSize(files)]
    /\ pre' = files
    /\ UNCHANGED <<files, file, arg, held>>

\* The state after serialize with outcome o.
Serialized(o) ==
    /\ op' = "serialize"
    /\ ret' = [NoRet EXCEPT !.raised = o.raised, !.bytes = o.bytes]
    /\ pre' = files
    /\ UNCHANGED <<files, file, arg, held>>

Serialize ==
    /\ op = "idle"
    /\ Serialized(serialize(files))

\* The state after readFrom with outcome r.
Read(r) ==
    /\ ret' = [NoRet EXCEPT !.raised = r.raised, !.error = r.error, !.count = r.number]
    /\ files' = r.files

\* Group.readFrom of a file that holds the bytes serialize returned; files
\* becomes the table of the group read, pre stays the table serialized.
ReadFrom ==
    /\ op = "serialize"
    /\ ~ret.raised
    /\ op' = "readFrom"
    /\ arg' = [NoArg EXCEPT !.bytes = ret.bytes]
    /\ Read(readFrom(ret.bytes))
    /\ UNCHANGED <<pre, file, held>>

CodecNext ==
    \/ GetGroupSize
    \/ GetGroupFileSize
    \/ Serialize
    \/ ReadFrom
    \/ Return

SpecCodec == CodecInit /\ [][CodecNext]_vars

(***************************************************************************)
(* The specification of the size of the encoding: the caller assigns a     *)
(* table, asks for the size of the group and serializes it.  One of the    *)
(* names has a character that is not ASCII.                                *)
(***************************************************************************)
\* The name "É.A" (U+00C9 is its own upper case).
NameAccent == <<201>> \o Str(<<".", "A">>)

AllocationFiles ==
    {GroupFile(NameA, d) : d \in CodecData}
        \cup {GroupFile(NameAccent, BufArg(Null)),
              GroupFile(NameAccent, BufArg(substring(Payload, 0, 1))),
              GroupFile(<<>>, BufArg(Null))}

\* group.files = [...]
AllocationInit ==
    /\ files \in SeqUpTo(AllocationFiles, MaxFiles)
    /\ pre = <<>>
    /\ file = NullFile
    /\ op = "idle"
    /\ arg = NoArg
    /\ ret = NoRet
    /\ held = NoHeld

AllocationNext ==
    \/ GetGroupSize
    \/ Serialize
    \/ Return

SpecAllocation == AllocationInit /\ [][AllocationNext]_vars


(***************************************************************************)
(* The specification of the equality of groups: the caller assigns a table *)
(* to a group and compares the group with a second one.                    *)
(***************************************************************************)
\* What the two groups hold: one name with and without data, a second name,
\* and a GroupFile with an empty name.
EqualsFiles ==
    {GroupFile(NameA, BufArg(Null)), GroupFile(NameA, BufArg(substring(Payload, 0, 1))),
     GroupFile(NameBC, BufArg(Null)), GroupFile(<<>>, BufArg(Null))}

\* group.files = [...]
EqualsInit ==
    /\ files \in SeqUpTo(EqualsFiles, MaxFiles)
    /\ pre = <<>>
    /\ file = NullFile
    /\ op = "idle"
    /\ arg = NoArg
    /\ ret = NoRet
    /\ held = NoHeld

\* group.equals(value), value a group with the table given; count is 1 for
\* true and 0 for false.
GroupEquals(value) ==
    /\ op = "idle"
    /\ Done("groupEquals", [NoArg EXCEPT !.list = value],
            Outcome(files, FALSE, NullFile, IF groupEquals(files, value) THEN 1 ELSE 0, <<>>))

\* Group.checkSameFileOrder(group, value)
CheckSameFileOrder(value) ==
    /\ op = "idle"
    /\ Done("checkSameFileOrder", [NoArg EXCEPT !.list = value],
            Outcome(files, FALSE, NullFile,
                    IF checkSameFileOrder(files, value) THEN 1 ELSE 0, <<>>))

EqualsNext ==
    \/ \E value \in SeqUpTo(EqualsFiles, MaxFiles) : GroupEquals(value)
    \/ \E value \in SeqUpTo(EqualsFiles, MaxFiles) : CheckSameFileOrder(value)
    \/ Return

SpecEquals == EqualsInit /\ [][EqualsNext]_vars


(***************************************************************************)
(* The specification of reading: a file holds the bytes of a group, whole  *)
(* or cut short, as they are or with one byte changed, and readFrom reads  *)
(* it.                                                                     *)
(***************************************************************************)
MaxRecords == 2

\* The groups whose bytes are read.
DecodeTables ==
    SeqUpTo({GroupFile(NameA, BufArg(substring(Payload, 0, MaxData))),
             GroupFile(NameTile, BufArg(Null))}, MaxRecords)

\* The bytes with one byte changed to a NUL, to 1 or to a space.
Changed(bytes) ==
    {[bytes EXCEPT ![i] = c] : i \in DOMAIN bytes, c \in {NUL, 1, 32}}

Beginnings(bytes) == {SubSeq(bytes, 1, k) : k \in 0..Len(bytes)}

DecodeInputs ==
    UNION {Beginnings(b) :
              b \in UNION {{serialize(fs).bytes} \cup Changed(serialize(fs).bytes) :
                              fs \in DecodeTables}}

\* A file with the bytes to read.
DecodeInit ==
    /\ files = <<>>
    /\ pre = <<>>
    /\ file = NullFile
    /\ op = "idle"
    /\ arg \in {[NoArg EXCEPT !.bytes = b] : b \in DecodeInputs}
    /\ ret = NoRet
    /\ held = NoHeld

\* Group.readFrom of the file; files becomes the table of the group read.
ReadBytes ==
    /\ op = "idle"
    /\ op' = "readFrom"
    /\ Read(readFrom(arg.bytes))
    /\ UNCHANGED <<pre, file, arg, held>>

DecodeNext ==
    \/ ReadBytes
    \/ Return

SpecDecode == DecodeInit /\ [][DecodeNext]_vars

(***************************************************************************)
(* The specification of a GroupFile's data and size: a GroupFile is        *)
(* constructed with a data value or a size; data values and sizes are      *)
(* assigned to it; the caller writes into the buffer it gave last and      *)
(* still holds; the GroupFile is compared with other values.               *)
(*                                                                         *)
(* The data setter stores Buffer.from(data) of a Buffer or a string, which *)
(* is new memory, and data.toBuffer() of a ByteBuffer, which is the        *)
(* ByteBuffer's backing buffer or a view of it (bytebuffer, Node build,    *)
(* without forceCopy): held.shared says that the GroupFile's data is the   *)
(* memory the caller holds.                                                *)
(***************************************************************************)
DataArg(kind, bytes) == [kind |-> kind, bytes |-> bytes]

\* The data values: Buffers, ByteBuffers and strings of up to MaxData bytes,
\* and a value that is none of these.
EntryData ==
    {DataArg(k, substring(Payload, 0, n)) : k \in {"buffer", "bytebuffer", "string"},
                                            n \in 0..MaxData}
        \cup {DataArg("other", Null)}

\* The sizes: integers, negative too, and a value that is no integer.
EntrySizes == {IntArg(n) : n \in -1..(MaxSize + 1)} \cup {BufArg(Null)}

EntryNames == {NameA, NameBC, Null}

\* What a GroupFile is compared with.
EntryValues ==
    {GroupFile(n, BufArg(b)) : n \in {NameA, Null}, b \in {Null, <<>>, substring(Payload, 0, 1)}}
        \cup {GroupFile(NameA, IntArg(1)), NotAGroupFile, NullFile}

\* The data setter keeps the memory of a ByteBuffer and copies the rest.
KeepsMemory(d) == d.kind = "bytebuffer"

\* What the caller holds after giving the data value d to the data setter.
Held(d) == [kind |-> d.kind, bytes |-> d.bytes, shared |-> KeepsMemory(d)]

\* new GroupFile(name, data) with a data value or with an integer.
EntryInit ==
    /\ files = <<>>
    /\ pre = <<>>
    /\ op = "new"
    /\ ret = NoRet
    /\ \E name \in EntryNames :
          \/ \E d \in EntryData :
                /\ file = GroupFile(name, BufArg(d.bytes))
                /\ arg = [NoArg EXCEPT !.name = name, !.bytes = d.bytes]
                /\ held = Held(d)
          \/ \E x \in EntrySizes :
                /\ x.int
                /\ file = GroupFile(name, x)
                /\ arg = [NoArg EXCEPT !.name = name, !.ref = IntRef(x.n)]
                /\ held = NoHeld

\* file.data = d
AssignData(d) ==
    /\ file' = DataSetter(file, d.bytes)
    /\ held' = Held(d)
    /\ op' = "data"
    /\ arg' = [NoArg EXCEPT !.file = file, !.bytes = d.bytes]
    /\ UNCHANGED <<files, pre, ret>>

\* file.setData(d)
SetData(d) ==
    /\ file' = setData(file, d.bytes)
    /\ held' = Held(d)
    /\ op' = "setData"
    /\ arg' = [NoArg EXCEPT !.file = file, !.bytes = d.bytes]
    /\ UNCHANGED <<files, pre, ret>>

\* file.clearData()
ClearData ==
    /\ file' = clearData(file)
    /\ held' = [held EXCEPT !.shared = FALSE]
    /\ op' = "clearData"
    /\ arg' = [NoArg EXCEPT !.file = file]
    /\ UNCHANGED <<files, pre, ret>>

\* file.size = x
SetSize(x) ==
    /\ file' = AssignSize(file, x)
    /\ op' = "size"
    /\ arg' = [NoArg EXCEPT !.file = file, !.ref = IF x.int THEN IntRef(x.n) ELSE OtherRef]
    /\ UNCHANGED <<files, pre, ret, held>>

\* The caller writes the byte b at the 1-based position i of the Buffer or
\* ByteBuffer it holds (a string cannot be written into).
WriteHeld(i, b) ==
    /\ held.kind \in {"buffer", "bytebuffer"}
    /\ i \in DOMAIN held.bytes
    /\ held.bytes[i] # b
    /\ held' = [held EXCEPT !.bytes[i] = b]
    /\ file' = IF held.shared THEN [file EXCEPT !.data[i] = b] ELSE file
    /\ op' = "write"
    /\ arg' = [NoArg EXCEPT !.file = file]
    /\ UNCHANGED <<files, pre, ret>>

\* file.equals(value); count is 1 for true and 0 for false.
Equals(value) ==
    /\ op # "equals"
    /\ op' = "equals"
    /\ arg' = [NoArg EXCEPT !.file = value]
    /\ ret' = [NoRet EXCEPT !.count = IF GroupFileEquals(file, value) THEN 1 ELSE 0]
    /\ UNCHANGED <<files, file, pre, held>>

EntryNext ==
    \/ \E d \in EntryData : AssignData(d)
    \/ \E d \in EntryData : SetData(d)
    \/ ClearData
    \/ \E x \in EntrySizes : SetSize(x)
    \/ \E i \in 1..MaxData, b \in {0} : WriteHeld(i, b)
    \/ \E value \in EntryValues : Equals(value)

SpecEntry == EntryInit /\ [][EntryNext]_vars

(***************************************************************************)
(* The properties                                                          *)
(***************************************************************************)
\* The bytes of a GroupFile's data; none when the data is null.
DataBytes(f) == IF f.data = Null THEN <<>> ELSE f.data

DataLength(f) == Len(DataBytes(f))

RECURSIVE DataLengthSum(_, _)
\* L1 + ... + Ln for the data lengths of the first n elements of fs.
DataLengthSum(fs, n) == IF n = 0 THEN 0 ELSE DataLengthSum(fs, n - 1) + DataLength(fs[n])

\* n as an unsigned 32-bit little-endian integer.
LittleEndian(n) == [k \in 1..4 |-> (n \div (256 ^ (k - 1))) % 256]

SameNameIgnoringCase(a, b) == IsString(a) /\ IsString(b) /\ toUpperCase(a) = toUpperCase(b)

\* The 1-based positions of fs that hold a GroupFile named as x is, up to case.
PositionsNamedAs(fs, x) ==
    {i \in DOMAIN fs : isGroupFile(fs[i]) /\ SameNameIgnoringCase(fs[i].name, x.name)}

NoDuplicateNames(fs) ==
    \A i, j \in DOMAIN fs :
        (i # j /\ isGroupFile(fs[i]) /\ isGroupFile(fs[j]))
            => ~SameNameIgnoringCase(fs[i].name, fs[j].name)

UniqueNamesUnderAdd ==
    /\ NoDuplicateNames(files)
    /\ (op = "addFile" /\ GroupFileIsValid(arg.file) /\ PositionsNamedAs(pre, arg.file) # {})
          => (ret.raised /\ files = pre)

SizeConsistency ==
    (op = "getGroupSize" /\ isValid(files)) =>
        ret.count = 12 + 4 + Len(files) * 16 + DataLengthSum(files, Len(files))

\* The size of a valid group with a placeholder and two files with data has
\* been asked for.
SizeConsistencyWitness ==
    /\ op = "getGroupSize"
    /\ isValid(files)
    /\ Len(files) = 3
    /\ \E i \in DOMAIN files : files[i].data = Null /\ files[i].size > 0
    /\ ret.count = 12 + 4 + 3 * 16 + 3

\* The indexes the references of a list stand for in the table fs: an integer
\* for itself, a name or a GroupFile for what indexOfFile finds.
ResolvedIndexes(fs, refs) ==
    {i \in 0..(Len(fs) - 1) :
        \E k \in DOMAIN refs :
            i = (IF refs[k].t = "int" THEN refs[k].i ELSE indexOfFile(fs, refs[k]))}

RECURSIVE Without(_, _, _)
\* The first n elements of fs without those at the 0-based indexes in R.
Without(fs, R, n) ==
    IF n = 0 THEN <<>>
    ELSE Without(fs, R, n - 1) \o (IF (n - 1) \in R THEN <<>> ELSE <<fs[n]>>)

\* C5: removeFiles returns the number of distinct indexes in range that its
\* references stand for in the table as it was, and leaves the entries at the
\* other indexes, in their order.
RemovalCount ==
    op = "removeFiles" =>
        /\ ~ret.raised
        /\ ret.count = Cardinality(ResolvedIndexes(pre, arg.list))
        /\ files = Without(pre, ResolvedIndexes(pre, arg.list), Len(pre))
        /\ Len(files) = Len(pre) - ret.count

\* Three references, one of them a name, not in the order of the table and
\* two of them for the same file, have removed two of three files.
RemovalCountWitness ==
    /\ op = "removeFiles"
    /\ Len(pre) = 3
    /\ Len(arg.list) = 3
    /\ arg.list[1] = IntRef(2)
    /\ arg.list[2].t = "str"
    /\ arg.list[3] = IntRef(0)
    /\ indexOfFile(pre, arg.list[2]) = 0
    /\ ret.count = 2
    /\ files = <<pre[2]>>

\* C6 as stated: replaceFile of a reference to no entry returns null and does
\* not throw; replaceFile and addFile of a value that is no valid GroupFile
\* throw; the table is then as it was.
FailureAtomicity ==
    /\ (op = "replaceFile" /\ indexOfFile(pre, arg.ref) = -1)
          => (~ret.raised /\ ret.value = NullFile /\ files = pre)
    /\ (op = "replaceFile" /\ ~GroupFileIsValid(arg.file))
          => (ret.raised /\ files = pre)
    /\ (op = "addFile" /\ ~GroupFileIsValid(arg.file))
          => (ret.raised /\ files = pre)

\* C6: replaceFile of a reference to no entry returns null and does not throw,
\* whatever the replacement; replaceFile of a reference to an entry, and
\* addFile, of a value that is no valid GroupFile throw; the table is then as
\* it was.
FailureAtomicityOfFound ==
    /\ (op = "replaceFile" /\ indexOfFile(pre, arg.ref) = -1)
          => (~ret.raised /\ ret.value = NullFile /\ files = pre)
    /\ (op = "replaceFile" /\ indexOfFile(pre, arg.ref) # -1 /\ ~GroupFileIsValid(arg.file))
          => (ret.raised /\ files = pre)
    /\ (op = "addFile" /\ ~GroupFileIsValid(arg.file))
          => (ret.raised /\ files = pre)

\* replaceFile has thrown for an entry of a table of two and a replacement with
\* an empty name.
FailureAtomicityWitness ==
    /\ op = "replaceFile"
    /\ Len(pre) = 2
    /\ indexOfFile(pre, arg.ref) = 1
    /\ isGroupFile(arg.file) /\ arg.file.name = <<>>
    /\ ret.raised

\* C7: addFile of a valid GroupFile puts it where the table holds a file of
\* its name (up to case) when replace is set, leaving the other positions as
\* they were; appends it when the table holds no file of its name; and
\* returns it.
AddFilePlacement ==
    (op = "addFile" /\ GroupFileIsValid(arg.file)) =>
        /\ (PositionsNamedAs(pre, arg.file) # {} /\ arg.replace) =>
              /\ ~ret.raised
              /\ ret.value = arg.file
              /\ \E i \in PositionsNamedAs(pre, arg.file) : files = [pre EXCEPT ![i] = arg.file]
        /\ PositionsNamedAs(pre, arg.file) = {} =>
              /\ ~ret.raised
              /\ ret.value = arg.file
              /\ files = Append(pre, arg.file)

RECURSIVE AfterAddFile(_, _, _, _)
\* The outcome of the k-th of k successive addFile calls with the elements of
\* list, from the table fs on (for k = 0, the table itself).
AfterAddFile(fs, list, k, replace) ==
    IF k = 0 THEN Outcome(fs, FALSE, NullFile, 0, <<>>)
    ELSE addFile(AfterAddFile(fs, list, k - 1, replace).files, list[k], replace)

\* C8: an addFiles that throws has failed at some k-th element, which addFile
\* refuses after the k - 1 elements before it; the table is as k - 1 successive
\* addFile calls left it; an addFiles that returns has made all the calls.
AddFilesNotAtomic ==
    op = "addFiles" =>
        IF ret.raised
        THEN \E k \in DOMAIN arg.list :
                /\ \A j \in 1..(k - 1) : ~AfterAddFile(pre, arg.list, j, arg.replace).raised
                /\ AfterAddFile(pre, arg.list, k, arg.replace).raised
                /\ files = AfterAddFile(pre, arg.list, k - 1, arg.replace).files
        ELSE /\ \A j \in DOMAIN arg.list : ~AfterAddFile(pre, arg.list, j, arg.replace).raised
             /\ files = AfterAddFile(pre, arg.list, Len(arg.list), arg.replace).files

\* addFiles has thrown at its second element and the first is in the table.
AddFilesNotAtomicWitness ==
    /\ op = "addFiles"
    /\ ret.raised
    /\ Len(arg.list) = 2
    /\ files = Append(pre, arg.list[1])

\* C9: assigning to a GroupFile the name it has leaves the name as it was.
IdempotentNormalization == op = "setOwnFileName" => file.name = arg.name

\* The raw name cut at its first NUL and trimmed.
Trimmed(x) == trim(before(x, firstIndexOf(x, {0})))

\* The stem and the extension of a name: what is before and after its last dot.
StemOf(n) == before(n, lastIndexOf(n, {46}))
ExtensionOf(n) == IF lastIndexOf(n, {46}) = 0 THEN <<>> ELSE after(n, lastIndexOf(n, {46}))

TruncationExamples ==
    /\ (op = "new" /\ arg.name = Surprise)
          => file.name = Str(<<"S","U","R","P",".","K","E","T","C","H","U","P">>)
    /\ (op = "setFileName" /\ arg.name = SlipSlap)
          => file.name = Str(<<"S","L","I","P","_","S","L",".","S","L","O","P">>)

\* C10 as stated: the two names of the tests are truncated as the tests say, and
\* every name of more than 12 characters after trimming becomes a cut of its
\* stem, a dot and its whole extension, 12 characters in all, in upper case.
TruncationKeepsExtension ==
    /\ TruncationExamples
    /\ (op \in {"new", "setFileName"} /\ IsString(arg.name) /\ Len(Trimmed(arg.name)) > 12)
          => /\ Len(file.name) = 12
             /\ \E k \in 0..Len(StemOf(Trimmed(arg.name))) :
                   file.name = toUpperCase(substring(StemOf(Trimmed(arg.name)), 0, k)
                                               \o <<46>> \o ExtensionOf(Trimmed(arg.name)))

\* The file name of a raw name: the raw name cut at its first NUL, trimmed,
\* and without the directories of a path.
FileNameOf(x) ==
    IF lastIndexOf(Trimmed(x), {47, 92}) = 0 THEN Trimmed(x)
    ELSE trim(after(Trimmed(x), lastIndexOf(Trimmed(x), {47, 92})))

\* C10: the two names of the tests are truncated as the tests say; a file name
\* of more than 12 characters with an extension of 1 to 10 characters becomes
\* the cut of its stem, a dot and its whole extension, 12 characters in all, in
\* upper case; one without an extension, or with an extension of 11 characters
\* or more, becomes the first 12 characters of its stem in upper case.
TruncationByExtension ==
    /\ TruncationExamples
    /\ (op \in {"new", "setFileName"} /\ IsString(arg.name) /\ Len(FileNameOf(arg.name)) > 12)
          => IF Len(ExtensionOf(FileNameOf(arg.name))) \in 1..10
             THEN /\ Len(file.name) = 12
                  /\ file.name =
                        toUpperCase(substring(StemOf(FileNameOf(arg.name)), 0,
                                              11 - Len(ExtensionOf(FileNameOf(arg.name))))
                                        \o <<46>> \o ExtensionOf(FileNameOf(arg.name)))
             ELSE file.name = toUpperCase(substring(StemOf(FileNameOf(arg.name)), 0, 12))

\* The first name of the tests, of 16 characters with an extension of 7, has
\* been given to a new GroupFile.
TruncationWitnessSurprise ==
    /\ op = "new"
    /\ arg.name = Surprise
    /\ file.name = Str(<<"S","U","R","P",".","K","E","T","C","H","U","P">>)

\* C11 as stated: the name of a GroupFile is null or a string in upper case
\* of at most 12 characters, at most 8 of them before its last dot and at most
\* 3 after it.
NameShape ==
    \/ file.name = Null
    \/ /\ IsString(file.name)
       /\ Len(file.name) <= 12
       /\ toUpperCase(file.name) = file.name
       /\ Len(StemOf(file.name)) <= 8
       /\ Len(ExtensionOf(file.name)) <= 3

\* C11: after the constructor, setFileName, renameFile and
\* reverseFileExtension the name of a GroupFile is null or a string of at most
\* 12 characters with no lower-case letter.
NameLength ==
    \/ file.name = Null
    \/ /\ IsString(file.name)
       /\ Len(file.name) <= 12
       /\ toUpperCase(file.name) = file.name

\* The extension of a name of 12 characters with an extension of 7 has been
\* reversed.
NameLengthWitness ==
    /\ op = "reverseFileExtension"
    /\ arg.name = Str(<<"S","U","R","P",".","K","E","T","C","H","U","P">>)
    /\ file.name = Str(<<"S","U","R","P",".","P","U","H","C","T","E","K">>)

\* C12: in every state of a GroupFile its size is a non-negative integer, and
\* is the length of its data when it has data.
SizeOfData ==
    /\ file.size >= 0
    /\ file.data # Null => file.size = Len(file.data)

\* C13: a.equals(b) is true exactly when b is a GroupFile, the names are the
\* same, and both have null data or both have data of the same bytes; it is
\* false for null data against data, of no bytes too, and for a value that is
\* no GroupFile.
EntryEquality ==
    op = "equals" =>
        /\ (ret.count = 1) <=>
              /\ isGroupFile(arg.file)
              /\ file.name = arg.file.name
              /\ \/ file.data = Null /\ arg.file.data = Null
                 \/ /\ file.data # Null /\ arg.file.data # Null
                    /\ Len(file.data) = Len(arg.file.data)
                    /\ \A i \in DOMAIN file.data : file.data[i] = arg.file.data[i]
        /\ ((file.data = Null) # (arg.file.data = Null)) => ret.count = 0
        /\ ~isGroupFile(arg.file) => ret.count = 0

\* A GroupFile with null data has been compared with one of the same name
\* with data of no bytes, and found different.
EntryEqualityWitness ==
    /\ op = "equals"
    /\ isGroupFile(arg.file)
    /\ file.name = NameSetter(NameA) /\ arg.file.name = file.name
    /\ file.data = Null /\ arg.file.data = <<>>
    /\ ret.count = 0

\* C14: when the caller writes into the Buffer or ByteBuffer it gave as data,
\* the data of the GroupFile stays as it was.
NoAliasing == op = "write" => file.data = arg.file.data

\* The number of files the bytes declare, and the 12 name bytes of record i.
DeclaredCount(b) == b[13] + 256 * b[14] + 65536 * b[15] + 16777216 * b[16]
RecordName(b, i) == SubSeq(b, 16 * i + 1, 16 * i + 12)

\* The check that fails first on record i (1-based), "" when none does.
RecordCheck(b, i) ==
    IF Len(b) < 16 * i + 12 THEN "missing name"
    ELSE IF Trimmed(RecordName(b, i)) = <<>> THEN "invalid name"
    ELSE IF Len(b) < 16 * i + 16 THEN "missing size"
    ELSE ""

\* The records that fail a check; the record that the bytes end in fails one.
FailingRecords(b) ==
    {i \in 1..Min({DeclaredCount(b), Len(b) \div 16}) : RecordCheck(b, i) # ""}

\* readFrom has thrown the error of a check, for record i, and made no group.
Thrown(error, i) ==
    /\ ret.raised
    /\ ret.error = error
    /\ ret.count = i
    /\ files = <<>>

\* C15: readFrom throws the error of the first check that fails, in the order
\* 12 bytes, the signature, 4 bytes of count, and for each record in turn 12
\* bytes of name, a name not empty once trimmed, 4 bytes of size; it names the
\* record and returns no group.
OrderedDecode ==
    op = "readFrom" =>
        IF Len(arg.bytes) < 12 THEN Thrown("missing header", 0)
        ELSE IF SubSeq(arg.bytes, 1, 12) # Str(<<"K","e","n","S","i","l","v","e","r","m","a","n">>)
        THEN Thrown("invalid header", 0)
        ELSE IF Len(arg.bytes) < 16 THEN Thrown("missing number of files", 0)
        ELSE IF FailingRecords(arg.bytes) # {}
        THEN Thrown(RecordCheck(arg.bytes, Min(FailingRecords(arg.bytes))),
                    Min(FailingRecords(arg.bytes)))
        ELSE ret.error \notin {"missing header", "invalid header", "missing number of files",
                               "missing name", "invalid name", "missing size"}

\* The second record has an empty name and no size, and readFrom has thrown
\* for the name.
OrderedDecodeWitness ==
    /\ op = "readFrom"
    /\ Len(arg.bytes) = 16 + 16 + 12
    /\ DeclaredCount(arg.bytes) = 2
    /\ RecordCheck(arg.bytes, 1) = ""
    /\ Thrown("invalid name", 2)

\* The table holds an element that is no GroupFile, or a GroupFile with a
\* null or an empty name.
HasInvalidElement(fs) ==
    \E i \in DOMAIN fs : ~fs[i].isGroupFile \/ fs[i].name = Null \/ fs[i].name = <<>>

\* C16: serialize of a group with an element that is not a valid GroupFile
\* throws and returns no bytes, whatever the other elements.
EncodePrecondition ==
    (op = "serialize" /\ HasInvalidElement(pre)) => (ret.raised /\ ret.bytes = <<>>)

\* serialize has thrown for a group of two valid files with data and a
\* GroupFile with a null name.
EncodePreconditionWitness ==
    /\ op = "serialize"
    /\ Len(pre) = 3
    /\ DataLength(pre[1]) > 0 /\ DataLength(pre[2]) > 0
    /\ ~HasInvalidElement(SubSeq(pre, 1, 2))
    /\ pre[3].isGroupFile /\ pre[3].name = Null
    /\ ret.raised

\* C17: for a group with an invalid element getGroupFileSize returns -1 and
\* getGroupSize returns 0, and neither throws; for a valid group
\* getGroupFileSize is at least 0 and getGroupSize at least 16.
SizeSentinel ==
    /\ (op = "getGroupFileSize" /\ HasInvalidElement(files)) => (~ret.raised /\ ret.count = -1)
    /\ (op = "getGroupSize" /\ HasInvalidElement(files)) => (~ret.raised /\ ret.count = 0)
    /\ (op = "getGroupFileSize" /\ ~HasInvalidElement(files)) => ret.count >= 0
    /\ (op = "getGroupSize" /\ ~HasInvalidElement(files)) => ret.count >= 16

\* getGroupFileSize has returned -1 for a group whose last element, after two
\* valid files with data, is no GroupFile.
SizeSentinelWitness ==
    /\ op = "getGroupFileSize"
    /\ Len(files) = 3
    /\ DataLength(files[1]) > 0 /\ DataLength(files[2]) > 0
    /\ ~HasInvalidElement(SubSeq(files, 1, 2))
    /\ ~files[3].isGroupFile
    /\ ret.count = -1

\* The integer reference is an index of the table as it was.
IndexInRange(ref, fs) == ref.t = "int" /\ ref.i >= 0 /\ ref.i < Len(fs)

\* C18: indexOfFile of an integer is the integer when it is an index of the
\* table and -1 when it is not; hasFile of an integer in range is true, and
\* replaceFile of an integer in range and a valid GroupFile puts the GroupFile
\* at that index and returns it.
IntegerRefs ==
    /\ (op = "indexOfFile" /\ arg.ref.t = "int")
          => ret.count = (IF IndexInRange(arg.ref, pre) THEN arg.ref.i ELSE -1)
    /\ (op = "hasFile" /\ arg.ref.t = "int")
          => ((ret.count = 1) <=> IndexInRange(arg.ref, pre))
    /\ (op = "replaceFile" /\ IndexInRange(arg.ref, pre) /\ GroupFileIsValid(arg.file))
          => /\ ~ret.raised
             /\ ret.value = arg.file
             /\ files = [pre EXCEPT ![arg.ref.i + 1] = arg.file]

\* C19: renameFile of a reference that getFile resolves to no element, or to
\* one that is not a valid GroupFile, returns false and leaves the table as
\* it was; otherwise it returns true, the name of the element becomes the
\* normalized new name, and its place, its size and data and the other
\* elements stay as they were.
RenameFrame ==
    op = "renameFile" =>
        /\ ~ret.raised
        /\ IF \/ indexOfGetFile(pre, arg.ref) = -1
              \/ ~GroupFileIsValid(pre[indexOfGetFile(pre, arg.ref) + 1])
           THEN ret.count = 0 /\ files = pre
           ELSE /\ ret.count = 1
                /\ Len(files) = Len(pre)
                /\ \A i \in DOMAIN pre :
                      IF i = indexOfGetFile(pre, arg.ref) + 1
                      THEN /\ files[i].name = NameSetter(arg.name)
                           /\ files[i].isGroupFile
                           /\ files[i].size = pre[i].size
                           /\ files[i].data = pre[i].data
                      ELSE files[i] = pre[i]

\* The second of three files, which has data, has been renamed by its name
\* to a name given in lower case.
RenameFrameWitness ==
    /\ op = "renameFile"
    /\ Len(pre) = 3
    /\ arg.ref = StrRef(NameBC)
    /\ indexOfGetFile(pre, arg.ref) = 1
    /\ arg.name = NameStairs
    /\ ret.count = 1
    /\ files[2].name = Str(<<"S","T","A","I","R","S">>)
    /\ files[2].data = Payload

\* The name matches the name of a valid GroupFile of the table, up to case
\* and to the white space around it.
NameMatches(fs, s) ==
    /\ IsString(s)
    /\ s # <<>>
    /\ \E i \in DOMAIN fs :
          /\ GroupFileIsValid(fs[i])
          /\ SameNameIgnoringCase(fs[i].name, s) \/ SameNameIgnoringCase(fs[i].name, trim(s))

\* The reference is an index of the table or matches one of its files.
RefMatches(fs, ref) ==
    \/ IndexInRange(ref, fs)
    \/ ref.t = "str" /\ NameMatches(fs, ref.s)
    \/ ref.t = "file" /\ NameMatches(fs, ref.f.name)

\* C20: removeFile never throws; it returns true exactly when the reference
\* is an index of the table or a name or GroupFile that matches a file of
\* the table, and then one element is gone and the others are in their
\* order; when it returns false the table is as it was.
RemoveOne ==
    op = "removeFile" =>
        /\ ~ret.raised
        /\ (ret.count = 1) <=> RefMatches(pre, arg.ref)
        /\ ret.count = 1 =>
              \E i \in DOMAIN pre :
                  files = SubSeq(pre, 1, i - 1) \o SubSeq(pre, i + 1, Len(pre))
        /\ ret.count = 0 => files = pre


\* The extension, in upper case, of the element of the table at position i,
\* or "" when the element is no GroupFile with a name and an extension.
ExtensionAt(fs, i) ==
    IF GroupFileIsValid(fs[i]) THEN toUpperCase(getExtension(fs[i])) ELSE <<>>

\* The first position of the table whose element has the extension.
FirstWith(fs, extension) ==
    Min({i \in DOMAIN fs : ExtensionAt(fs, i) = extension})

\* C21: getFileExtensions returns every extension of the validly named
\* GroupFiles of the table, in upper case, once each, and in the order of
\* the first files that have them, whatever the extensions are made of.
FirstSeenExtensions ==
    op = "getFileExtensions" =>
        /\ ~ret.raised
        /\ {ret.list[k] : k \in DOMAIN ret.list}
              = {ExtensionAt(pre, i) : i \in DOMAIN pre} \ {<<>>}
        /\ \A k, l \in DOMAIN ret.list :
              k < l => FirstWith(pre, ret.list[k]) < FirstWith(pre, ret.list[l])


\* C22: the bytes serialize returns for a valid group are read back without
\* error, and the group read serializes to the same bytes.
ByteRoundTrip ==
    op = "readFrom" =>
        /\ ~ret.raised
        /\ ~serialize(files).raised
        /\ serialize(files).bytes = arg.bytes


\* The size that record i (1-based) of the bytes declares.
DeclaredSize(b, i) ==
    b[16 * i + 13] + 256 * b[16 * i + 14] + 65536 * b[16 * i + 15] + 16777216 * b[16 * i + 16]

RECURSIVE DeclaredSizeSum(_, _)
\* s1 + ... + sn for the sizes the first n records declare.
DeclaredSizeSum(b, n) ==
    IF n = 0 THEN 0 ELSE DeclaredSizeSum(b, n - 1) + DeclaredSize(b, n)

\* The bytes pass the checks of the header and of every record of the table.
TableChecksPass(b) ==
    /\ Len(b) >= 16
    /\ SubSeq(b, 1, 12) = Str(<<"K","e","n","S","i","l","v","e","r","m","a","n">>)
    /\ DeclaredCount(b) <= (Len(b) - 16) \div 16
    /\ \A i \in 1..DeclaredCount(b) : RecordCheck(b, i) = ""

\* Every entry of the group read has as data the bytes of b that its record
\* declares, from the end of the table on and one entry after the other.
PayloadInTableOrder(b, fs) ==
    /\ Len(fs) = DeclaredCount(b)
    /\ \A i \in DOMAIN fs :
          /\ fs[i].size = DeclaredSize(b, i)
          /\ fs[i].data # Null
          /\ Len(fs[i].data) = DeclaredSize(b, i)
          /\ \A k \in 1..DeclaredSize(b, i) :
                /\ 16 + 16 * DeclaredCount(b) + DeclaredSizeSum(b, i - 1) + k <= Len(b)
                /\ fs[i].data[k] = b[16 + 16 * DeclaredCount(b) + DeclaredSizeSum(b, i - 1) + k]

\* C23 as stated: bytes that pass the checks of the table are read without
\* error, and every entry has as data the bytes its record declares.
PayloadAssignment ==
    (op = "readFrom" /\ TableChecksPass(arg.bytes)) =>
        /\ ~ret.raised
        /\ PayloadInTableOrder(arg.bytes, files)

\* C23: bytes that pass the checks of the table and hold all the payload the
\* table declares are read without error, every entry having as data the
\* bytes its record declares; bytes that end before the payload does make
\* readFrom throw a range error and return no group.
PayloadAssignmentWithinBytes ==
    (op = "readFrom" /\ TableChecksPass(arg.bytes)) =>
        IF Len(arg.bytes) >= 16 + 16 * DeclaredCount(arg.bytes)
                                + DeclaredSizeSum(arg.bytes, DeclaredCount(arg.bytes))
        THEN ~ret.raised /\ PayloadInTableOrder(arg.bytes, files)
        ELSE ret.raised /\ ret.error = "illegal range" /\ files = <<>>

\* Two records, the first declaring one byte, have been read: the second
\* entry's data starts at the second byte of the payload.
PayloadAssignmentWitness ==
    /\ op = "readFrom"
    /\ ~ret.raised
    /\ Len(files) = 2
    /\ DeclaredSize(arg.bytes, 1) = 1
    /\ DeclaredSize(arg.bytes, 2) = 2
    /\ files[1].data = SubSeq(arg.bytes, 49, 49)
    /\ files[2].data = SubSeq(arg.bytes, 50, 51)
    /\ files[2].data # SubSeq(arg.bytes, 49, 50)


\* The table holds a placeholder at position i: a valid GroupFile with null
\* data that declares a size above 0.
IsPlaceholder(fs, i) == GroupFileIsValid(fs[i]) /\ fs[i].data = Null /\ fs[i].size > 0

\* C24 as stated: serialize of a valid group writes, for a placeholder, the
\* size it declares in its size field, and none of its bytes in the payload.
PlaceholderDeclaredSize ==
    (op = "serialize" /\ isValid(pre)) =>
        /\ ~ret.raised
        /\ \A i \in DOMAIN pre :
              IsPlaceholder(pre, i) => DeclaredSize(ret.bytes, i) = pre[i].size

\* C24: serialize of a valid group writes 0 in the size field of a
\* placeholder, whatever size it declares, and none of its bytes in the
\* payload: the sizes of the table add up to the payload that is written.
PlaceholderWritesZero ==
    (op = "serialize" /\ isValid(pre)) =>
        /\ ~ret.raised
        /\ \A i \in DOMAIN pre : IsPlaceholder(pre, i) => DeclaredSize(ret.bytes, i) = 0
        /\ Len(ret.bytes) = 16 + 16 * Len(pre) + DeclaredSizeSum(ret.bytes, Len(pre))

\* A group with a placeholder before a file with data has been serialized.
PlaceholderWitness ==
    /\ op = "serialize"
    /\ ~ret.raised
    /\ Len(pre) = 2
    /\ IsPlaceholder(pre, 1)
    /\ DataLength(pre[2]) = 2
    /\ DeclaredSize(ret.bytes, 1) = 0
    /\ Len(ret.bytes) = 16 + 16 * 2 + 2


\* C25: serialize of a valid group returns as many bytes as getGroupSize
\* gives for the group as it is before the call, placeholders or not.
ExactAllocation ==
    (op = "serialize" /\ isValid(pre)) =>
        /\ ~ret.raised
        /\ Len(ret.bytes) = getGroupSize(pre)


\* C26: in a group that is made empty and changed with addFile, renameFile,
\* replaceFile and removeFile alone, no two entries have names that are
\* equal up to case.
UniqueNamesUnderRename == NoDuplicateNames(files)


\* C27: a group that is made empty and changed with addFile, addFiles,
\* renameFile, replaceFile, removeFile, removeFiles and clearFiles alone is
\* valid after every call, whatever the arguments are.
ValidityPreserved == isValid(files)


\* A lookup by a name as the caller wrote it, in a table that holds the
\* GroupFile made with that name.
LooksUpAdded ==
    /\ op \in {"indexOfFile", "hasFile", "getFile"}
    /\ arg.ref.t = "str"
    /\ isNonEmptyString(NameSetter(arg.ref.s))
    /\ \E i \in DOMAIN pre : pre[i].name = NameSetter(arg.ref.s)

\* The lookup has found the GroupFile made with the name.
FoundAdded ==
    /\ ret.count # -1
    /\ op = "hasFile" => ret.count = 1
    /\ op # "hasFile" => pre[ret.count + 1].name = NameSetter(arg.ref.s)
    /\ op = "getFile" => ret.value = pre[ret.count + 1]

\* The lookup has found nothing.
FoundNothing ==
    /\ op = "hasFile" => ret.count = 0
    /\ op # "hasFile" => ret.count = -1
    /\ op = "getFile" => ret.value = NullFile

\* C28 as stated: indexOfFile, hasFile and getFile of the name a GroupFile
\* of the table was made with find that GroupFile.
LookupByRawName == LooksUpAdded => FoundAdded

\* C28: indexOfFile, hasFile and getFile of the name a GroupFile of the
\* table was made with find that GroupFile exactly when the name, trimmed,
\* is the GroupFile's name up to case; a name that the name setter has
\* stripped of a path or truncated finds nothing.
LookupByTrimmedName ==
    LooksUpAdded =>
        IF SameNameIgnoringCase(trim(arg.ref.s), NameSetter(arg.ref.s))
        THEN FoundAdded ELSE FoundNothing

\* A file added as "SURPRISE.ketchup", the second of two, is not found by
\* that name.
LookupWitness ==
    /\ LooksUpAdded
    /\ op = "getFile"
    /\ arg.ref.s = Surprise
    /\ Len(pre) = 2
    /\ pre[2].name = NameSetter(Surprise)
    /\ FoundNothing


\* The two tables have the same names at the same positions.
SameNamesInOrder(fs, gs) ==
    /\ Len(fs) = Len(gs)
    /\ \A i \in DOMAIN fs : fs[i].name = gs[i].name

\* C29: for two valid groups, equals is true only if they have as many files
\* and each file of the first equals, as a GroupFile, a file of the second;
\* and equals agrees with checkSameFileOrder on groups that have the same
\* names in the same order.
GroupEqualityByContent ==
    (op = "groupEquals" /\ isValid(pre) /\ isValid(arg.list)) =>
        /\ ret.count = 1 =>
              /\ Len(pre) = Len(arg.list)
              /\ \A i \in DOMAIN pre :
                    \E j \in DOMAIN arg.list : GroupFileEquals(pre[i], arg.list[j])
        /\ SameNamesInOrder(pre, arg.list) =>
              ((ret.count = 1) <=> checkSameFileOrder(pre, arg.list))


\* C30: every group readFrom returns is valid and has no two entries whose
\* names are equal up to case, whatever the bytes are.
DecodedInvariants ==
    (op = "readFrom" /\ ~ret.raised) =>
        /\ isValid(files)
        /\ NoDuplicateNames(files)

====
